---- MODULE Spec2Model ----
(***************************************************************************)
(* Secure-Bank (src/server.js): the express handlers for signup, signin,   *)
(* the authentication middleware and the protected account operations,     *)
(* over the PostgreSQL tables users, loans and cards.                       *)
(*                                                                         *)
(* Every handler is an async function: it runs to completion between two   *)
(* awaits, and handlers of different requests interleave at the awaits.    *)
(* One action of the model is one database statement taking effect         *)
(* together with the synchronous code that follows it up to the next       *)
(* statement.  The awaits on bcrypt touch no shared state and are folded   *)
(* into the step of the statement that follows them.                       *)
(*                                                                         *)
(* Values.  A SQL NULL / JS undefined in an optional column is <<>> and a  *)
(* present value v is <<v>>.  An absent string field of a request body is  *)
(* "" (both are falsy for the handlers' !x tests).  A JSON value that a    *)
(* handler parses as a number is [t, n, s]: absent, a JSON number n or a   *)
(* JSON string s.  A JS number or NUMERIC value is an integer or NaN.      *)
(***************************************************************************)
EXTENDS Integers, Sequences, FiniteSets, TLC

VARIABLES
    users,          \* table users: id -> row
    users_id_seq,   \* last value of the SERIAL sequence of users.id
    loans,          \* table loans: sequence of rows, id = index
    cards,          \* table cards: set of rows
    reqs,           \* requests in flight: slot -> request record
    now,            \* wall clock, in hours
    issued          \* tokens returned to clients by signin

vars == <<users, users_id_seq, loans, cards, reqs, now, issued>>

\* ------------------------------------------------------------------ bounds
MaxReqs == 2        \* requests in flight at once
MaxUserId == 3      \* values of users_id_seq
MaxLoans == 2       \* rows of loans
MaxTokens == 1      \* distinct tokens handed out
NumSalts == 1       \* distinct bcrypt salts
MaxSkew == 1        \* clock samples around issuance and expiry

\* --------------------------------------------------------------- constants
JWT_SECRET == "replace_this_with_a_strong_secret"
OtherSecret == "some_other_secret"
ExpiresIn == 24                 \* '24h'
DefaultBalance == 50000         \* balance NUMERIC DEFAULT 50000
BcryptCost == 10
NaN == 0 - 1000000000           \* the JS number NaN / NUMERIC 'NaN'

Null == <<>>
Some(v) == <<v>>

\* ---------------------------------------------------------- JS arithmetic
IsNaN(x) == x = NaN
Add(a, b) == IF IsNaN(a) \/ IsNaN(b) THEN NaN ELSE a + b
Mul(a, b) == IF IsNaN(a) \/ IsNaN(b) THEN NaN ELSE a * b
Gt(a, b) == ~IsNaN(a) /\ ~IsNaN(b) /\ a > b

\* JSON values of a request body that the handlers treat as numbers
Absent == [t |-> "absent", n |-> 0, s |-> ""]
Num(n) == [t |-> "num", n |-> n, s |-> ""]
Str(s) == [t |-> "str", n |-> 0, s |-> s]

\* the decimal strings the model sends
StrToNum(s) ==
    CASE s = "0" -> 0
      [] s = "1" -> 1
      [] OTHER -> NaN

\* !x of JavaScript
Falsy(x) ==
    CASE x.t = "absent" -> TRUE
      [] x.t = "num" -> x.n = 0
      [] OTHER -> x.s = ""

parseFloat(x) ==
    CASE x.t = "absent" -> NaN
      [] x.t = "num" -> x.n
      [] OTHER -> StrToNum(x.s)

\* ----------------------------------------------------------------- bcrypt
Salts == 1..NumSalts

\* two passwords of 73 bytes that differ in their last byte only
LongPasswords == {"<72 bytes>A", "<72 bytes>B"}

\* the key bcrypt derives the digest from: the first 72 bytes of the password
bcryptKey(pw) == IF pw \in LongPasswords THEN "<72 bytes>" ELSE pw

bcryptHash(pw, salt) ==
    [cost |-> BcryptCost, salt |-> salt, digest |-> <<bcryptKey(pw), salt>>]

\* mutation of bcryptCompare: every password verifies
bcryptCompareAny(pw, hash) == TRUE

bcryptCompare(pw, hash) == bcryptHash(pw, hash.salt) = hash

\* --------------------------------------------------------------------- jwt
jwtSign(payload, secret, t) ==
    [id |-> payload.id, email |-> payload.email, iat |-> t, exp |-> t + ExpiresIn,
     sig |-> secret]

\* mutation of verifyJwt: jwt.decode, which checks nothing
jwtDecodeOnly(token, t) == Some(token)

\* mutation of verifyJwt: jwt.verify with maxAge '1h'
jwtVerifyMaxAge(token, t) ==
    IF token.sig = JWT_SECRET /\ t < token.exp /\ t < token.iat + 1
    THEN Some(token) ELSE Null

\* mutation of verifyJwt: jwt.verify with ignoreExpiration
jwtVerifyNoExpiry(token, t) == IF token.sig = JWT_SECRET THEN Some(token) ELSE Null

\* jwt.verify: the decoded payload, or none when the signature does not
\* match or the token has expired (clock >= exp)
verifyJwt(token, t) ==
    IF token.sig = JWT_SECRET /\ t < token.exp THEN Some(token) ELSE Null

\* ------------------------------------------------------------------ tables
UserIds == DOMAIN users

UsersByEmail(email) == {id \in UserIds : users[id].email = email}

UserRow(id, name, email, hashed, income, nid) ==
    [id |-> id, name |-> name, email |-> email, password |-> hashed,
     monthly_income |-> income, date_of_birth |-> Null, address |-> Null,
     nid_picture |-> nid, balance |-> DefaultBalance]

LoanRow(id, uid, amt, t) ==
    [id |-> id, user_id |-> uid, amount |-> amt, status |-> "active",
     taken_at |-> t, paid_at |-> Null]

\* mutation of Project: SELECT * in the gate
ProjectWithPassword(row) == row

\* the column list of the gate's SELECT
Project(row) ==
    [id |-> row.id, name |-> row.name, email |-> row.email,
     monthly_income |-> row.monthly_income, balance |-> row.balance,
     address |-> row.address, nid_picture |-> row.nid_picture]

\* ---------------------------------------------------------------- requests
Slots == 1..MaxReqs

NoBody == [none |-> TRUE]
NoLoc == [none |-> TRUE]

Idle == [op |-> "idle", pc |-> "idle"]

Response(status, success, message) ==
    [status |-> status, success |-> success, message |-> message]

Finish(r, res) == [r EXCEPT !.pc = "done", !.res = res]

\* a protected handler returns: its locals are gone
FinishHandler(r, res) == [r EXCEPT !.pc = "done", !.res = res, !.loc = NoLoc]

Pending(s, op, pc) == reqs[s].op = op /\ reqs[s].pc = pc

\* ------------------------------------------------------------------ signup
\* income || null, sent as a NUMERIC parameter
IncomeColumn(income) == IF Falsy(income) THEN Null ELSE Some(parseFloat(income))

\* POST /api/signup and POST /api/signup-with-file: validation, then the
\* SELECT is sent
SignupStart(s, route, bodies) ==
    /\ reqs[s].op = "idle"
    /\ \E body \in bodies :
        LET r == [op |-> route, pc |-> "exists", body |-> body, res |-> Null] IN
        reqs' = [reqs EXCEPT ![s] =
            IF body.name = "" \/ body.email = "" \/ body.password = ""
            THEN Finish(r, Some(Response(400, FALSE, "Missing required fields")))
            ELSE r]
    /\ UNCHANGED <<users, users_id_seq, loans, cards, now, issued>>

\* SELECT id FROM users WHERE email=$1
SignupExists(s, route) ==
    /\ Pending(s, route, "exists")
    /\ reqs' = [reqs EXCEPT ![s] =
            IF UsersByEmail(reqs[s].body.email) # {}
            THEN Finish(@, Some(Response(400, FALSE, "Email already registered")))
            ELSE [@ EXCEPT !.pc = "insert"]]
    /\ UNCHANGED <<users, users_id_seq, loans, cards, now, issued>>

\* mutation of UniqueViolation: the email column without UNIQUE
UniqueViolationNever(email) == FALSE

\* the UNIQUE constraint on users.email
UniqueViolation(email) == UsersByEmail(email) # {}

\* bcrypt.hash, then INSERT INTO users: the sequence advances whether or not
\* the row is accepted
SignupInsert(s, route) ==
    /\ Pending(s, route, "insert")
    /\ users_id_seq < MaxUserId
    /\ users_id_seq' = users_id_seq + 1
    /\ \E salt \in Salts :
        LET b == reqs[s].body
            nid == IF route = "signup-with-file" /\ b.file
                   THEN Some("/uploads/nid") ELSE Null
            row == UserRow(users_id_seq + 1, b.name, b.email,
                           bcryptHash(b.password, salt), IncomeColumn(b.income), nid)
        IN  IF UniqueViolation(b.email)
            THEN /\ users' = users
                 /\ reqs' = [reqs EXCEPT ![s] =
                        Finish(@, Some(Response(500, FALSE, "Server error")))]
            ELSE /\ users' = (row.id :> row) @@ users
                 /\ reqs' = [reqs EXCEPT ![s] =
                        Finish(@, Some(Response(201, TRUE, "Account created successfully")))]
    /\ UNCHANGED <<loans, cards, now, issued>>

\* ------------------------------------------------------------------ signin
\* POST /api/signin: validation, then the SELECT is sent
SigninStart(s, bodies) ==
    /\ reqs[s].op = "idle"
    /\ \E body \in bodies :
        LET r == [op |-> "signin", pc |-> "select", body |-> body, res |-> Null] IN
        reqs' = [reqs EXCEPT ![s] =
            IF body.email = "" \/ body.password = ""
            THEN Finish(r, Some(Response(400, FALSE, "Missing credentials")))
            ELSE r]
    /\ UNCHANGED <<users, users_id_seq, loans, cards, now, issued>>

SafeUser(user) ==
    [id |-> user.id, name |-> user.name, email |-> user.email,
     monthly_income |-> user.monthly_income, balance |-> user.balance,
     nid_picture |-> user.nid_picture]

\* mutation of SigninAnswer: the result of bcrypt.compare is not tested
SigninAnswerAnyPassword(q, password, t) ==
    IF q = {} THEN Response(401, FALSE, "Invalid email or password")
    ELSE LET user == CHOOSE u \in q : TRUE IN
         [status |-> 200, success |-> TRUE, message |-> "Login successful",
          user |-> SafeUser(user),
          token |-> jwtSign([id |-> user.id, email |-> user.email], JWT_SECRET, t)]

\* what signin answers for the row set q of its SELECT
SigninAnswer(q, password, t) ==
    IF q = {} THEN Response(401, FALSE, "Invalid email or password")
    ELSE LET user == CHOOSE u \in q : TRUE IN
         IF ~bcryptCompare(password, user.password)
         THEN Response(401, FALSE, "Invalid email or password")
         ELSE [status |-> 200, success |-> TRUE, message |-> "Login successful",
               user |-> SafeUser(user),
               token |-> jwtSign([id |-> user.id, email |-> user.email], JWT_SECRET, t)]

\* SELECT * FROM users WHERE email=$1, bcrypt.compare, jwt.sign
SigninSelect(s) ==
    /\ Pending(s, "signin", "select")
    /\ LET q == {users[id] : id \in UsersByEmail(reqs[s].body.email)}
           res == SigninAnswer(q, reqs[s].body.password, now)
       IN  /\ reqs' = [reqs EXCEPT ![s] = Finish(@, Some(res))]
           /\ IF res.success
              THEN /\ res.token \in issued \/ Cardinality(issued) < MaxTokens
                   /\ issued' = issued \cup {res.token}
              ELSE issued' = issued
    /\ UNCHANGED <<users, users_id_seq, loans, cards, now>>

\* the response has been sent: the slot is free for the next request
Release(s) ==
    /\ reqs[s].pc = "done"
    /\ reqs' = [reqs EXCEPT ![s] = Idle]
    /\ UNCHANGED <<users, users_id_seq, loans, cards, now, issued>>

\* --------------------------------------------------- authentication gate
\* An Authorization header is [scheme, token]: "Bearer <jwt>" has scheme
\* "Bearer", the bare "<jwt>" has scheme "" and "Basic <jwt>" scheme "Basic".
Header(scheme, token) == Some([scheme |-> scheme, token |-> token])

\* auth.replace(/^Bearer\s+/, ''): the string handed to jwt.verify, as the
\* JWT it spells, or none when the string is not a JWT
BearerReplace(h) == IF h.scheme \in {"Bearer", ""} THEN Some(h.token) ELSE Null

\* authMiddleware up to its await: header and token checks
GateCheck(h, t) ==
    IF h = Null THEN [ok |-> FALSE, message |-> "Authorization header missing", decoded |-> Null]
    ELSE LET token == BearerReplace(h[1])
             decoded == IF token = Null THEN Null ELSE verifyJwt(token[1], t)
         IN  IF decoded = Null
             THEN [ok |-> FALSE, message |-> "Invalid or expired token", decoded |-> Null]
             ELSE [ok |-> TRUE, message |-> "", decoded |-> decoded]

\* a protected route is requested: authMiddleware runs up to its SELECT
ProtectedStart(s, op, headers) ==
    /\ reqs[s].op = "idle"
    /\ \E h \in headers :
        LET g == GateCheck(h, now)
            r == [op |-> op, pc |-> "gate", auth |-> h, decoded |-> g.decoded,
                  user |-> Null, body |-> NoBody, loc |-> NoLoc, res |-> Null]
        IN  reqs' = [reqs EXCEPT ![s] =
                IF g.ok THEN r ELSE Finish(r, Some(Response(401, FALSE, g.message)))]
    /\ UNCHANGED <<users, users_id_seq, loans, cards, now, issued>>

\* the synchronous head of each protected handler, entered by next()
EnterHandler(r, body) ==
    CASE r.op = "user" ->
            Finish(r, Some([status |-> 200, success |-> TRUE, user |-> r.user[1]]))
      [] r.op = "take-loan" ->
            IF Falsy(body.amount)
            THEN Finish([r EXCEPT !.body = body], Some(Response(400, FALSE, "Missing amount")))
            ELSE [r EXCEPT !.body = body, !.pc = "select"]
      [] r.op = "change-password" ->
            IF body.oldPassword = "" \/ body.newPassword = ""
            THEN Finish([r EXCEPT !.body = body], Some(Response(400, FALSE, "Missing passwords")))
            ELSE [r EXCEPT !.body = body, !.pc = "select"]
      [] OTHER -> [r EXCEPT !.pc = "select"]

\* the row set of the gate's SELECT ... WHERE id=$1
GateRows(id) == {users[u] : u \in UserIds \cap {id}}

\* SELECT id, name, ... FROM users WHERE id=$1; req.user = q.rows[0]; next()
GateSelect(s, op, bodies) ==
    /\ Pending(s, op, "gate")
    /\ LET q == GateRows(reqs[s].decoded[1].id) IN
       IF q = {}
       THEN reqs' = [reqs EXCEPT ![s] =
                Finish(@, Some(Response(401, FALSE, "User not found")))]
       ELSE \E row \in q, body \in bodies :
                reqs' = [reqs EXCEPT ![s] =
                    EnterHandler([@ EXCEPT !.user = Some(Project(row))], body)]
    /\ UNCHANGED <<users, users_id_seq, loans, cards, now, issued>>

\* --------------------------------------------------------------- take-loan
IncomeOrZero(income) == IF income = Null THEN 0 ELSE income[1]

\* mutation of MaxLoanOf: twice the income
MaxLoanDouble(user) == Mul(IncomeOrZero(user.monthly_income), 2)

\* the sum of the amounts of the first n loan rows that belong to uid
RECURSIVE HeldAmounts(_, _)
HeldAmounts(uid, n) ==
    IF n = 0 THEN 0
    ELSE Add(IF loans[n].user_id = uid THEN loans[n].amount ELSE 0, HeldAmounts(uid, n - 1))

\* the sum of the amounts of the first n loan rows that belong to others
RECURSIVE OthersAmounts(_, _)
OthersAmounts(uid, n) ==
    IF n = 0 THEN 0
    ELSE Add(IF loans[n].user_id # uid THEN loans[n].amount ELSE 0, OthersAmounts(uid, n - 1))

\* mutation of MaxLoanOf: one lending pool, the ceiling less the loans that
\* the other users hold
MaxLoanLessOthers(user) ==
    Add(Mul(IncomeOrZero(user.monthly_income), 3), 0 - OthersAmounts(user.id, Len(loans)))

\* mutation of MaxLoanOf: the ceiling less the loans the user holds
MaxLoanRemaining(user) ==
    Add(Mul(IncomeOrZero(user.monthly_income), 3), 0 - HeldAmounts(user.id, Len(loans)))

\* maxLoan = (user.monthly_income || 0) * 3
MaxLoanOf(user) == Mul(IncomeOrZero(user.monthly_income), 3)

\* a JS number in a JSON response: NaN is written as null
JsonNumber(x) == IF IsNaN(x) THEN Null ELSE Some(x)

\* mutation of TakeLoanSelect: the handler uses req.user instead of the row
\* it selects
TakeLoanSelectFromGateView(s) ==
    /\ Pending(s, "take-loan", "select")
    /\ LET user == reqs[s].user[1]
           maxLoan == MaxLoanOf(user)
           amt == parseFloat(reqs[s].body.amount)
       IN  reqs' = [reqs EXCEPT ![s] =
                IF Gt(amt, maxLoan)
                THEN FinishHandler(@, Some([status |-> 400, success |-> FALSE,
                                     message |-> "Maximum loan based on income is",
                                     maxLoan |-> JsonNumber(maxLoan)]))
                ELSE [@ EXCEPT !.pc = "insert",
                               !.loc = [amt |-> amt, balance |-> user.balance,
                                        newBalance |-> NaN]]]
    /\ UNCHANGED <<users, users_id_seq, loans, cards, now, issued>>

\* SELECT monthly_income, balance; the eligibility test; the INSERT is sent
TakeLoanSelect(s) ==
    /\ Pending(s, "take-loan", "select")
    /\ LET user == users[reqs[s].user[1].id]
           maxLoan == MaxLoanOf(user)
           amt == parseFloat(reqs[s].body.amount)
       IN  reqs' = [reqs EXCEPT ![s] =
                IF Gt(amt, maxLoan)
                THEN FinishHandler(@, Some([status |-> 400, success |-> FALSE,
                                     message |-> "Maximum loan based on income is",
                                     maxLoan |-> JsonNumber(maxLoan)]))
                ELSE [@ EXCEPT !.pc = "insert",
                               !.loc = [amt |-> amt, balance |-> user.balance,
                                        newBalance |-> NaN]]]
    /\ UNCHANGED <<users, users_id_seq, loans, cards, now, issued>>

\* mutation of NewBalanceOf: user.balance + amt without parseFloat appends
\* the digit of amt to the balance string
NewBalanceConcat(balance, amt) == Add(Mul(balance, 10), amt)

\* newBalance = parseFloat(user.balance || 0) + amt
NewBalanceOf(balance, amt) == Add(balance, amt)

\* mutation of TakeLoanInsert: the insert also settles the earlier loans of
\* the user
TakeLoanInsertSettling(s) ==
    /\ Pending(s, "take-loan", "insert")
    /\ Len(loans) < MaxLoans
    /\ loans' = Append([i \in DOMAIN loans |->
                            IF loans[i].user_id = reqs[s].user[1].id
                            THEN [loans[i] EXCEPT !.status = "paid", !.paid_at = Some(now)]
                            ELSE loans[i]],
                       LoanRow(Len(loans) + 1, reqs[s].user[1].id, reqs[s].loc.amt, now))
    /\ reqs' = [reqs EXCEPT ![s].pc = "update",
                            ![s].loc.newBalance =
                                NewBalanceOf(reqs[s].loc.balance, reqs[s].loc.amt)]
    /\ UNCHANGED <<users, users_id_seq, cards, now, issued>>

\* INSERT INTO loans; newBalance from the balance read before; the UPDATE is sent
TakeLoanInsert(s) ==
    /\ Pending(s, "take-loan", "insert")
    /\ Len(loans) < MaxLoans
    /\ loans' = Append(loans, LoanRow(Len(loans) + 1, reqs[s].user[1].id,
                                      reqs[s].loc.amt, now))
    /\ reqs' = [reqs EXCEPT ![s].pc = "update",
                            ![s].loc.newBalance =
                                NewBalanceOf(reqs[s].loc.balance, reqs[s].loc.amt)]
    /\ UNCHANGED <<users, users_id_seq, cards, now, issued>>

\* mutation of TakeLoanUpdate: UPDATE users SET balance=$1 without WHERE
TakeLoanUpdateAllRows(s) ==
    /\ Pending(s, "take-loan", "update")
    /\ users' = [u \in DOMAIN users |-> [users[u] EXCEPT !.balance = reqs[s].loc.newBalance]]
    /\ reqs' = [reqs EXCEPT ![s] =
            FinishHandler(@, Some([status |-> 201, success |-> TRUE, message |-> "Loan approved",
                            newBalance |-> JsonNumber(reqs[s].loc.newBalance)]))]
    /\ UNCHANGED <<users_id_seq, loans, cards, now, issued>>

\* UPDATE users SET balance=$1 WHERE id=$2; 201
TakeLoanUpdate(s) ==
    /\ Pending(s, "take-loan", "update")
    /\ users' = [users EXCEPT ![reqs[s].user[1].id].balance = reqs[s].loc.newBalance]
    /\ reqs' = [reqs EXCEPT ![s] =
            FinishHandler(@, Some([status |-> 201, success |-> TRUE, message |-> "Loan approved",
                            newBalance |-> JsonNumber(reqs[s].loc.newBalance)]))]
    /\ UNCHANGED <<users_id_seq, loans, cards, now, issued>>

\* ------------------------------------------------------------ loan history
LoanIdsOf(uid) == {i \in 1..Len(loans) : loans[i].user_id = uid}

\* mutation of NewestFirst: the SELECT without ORDER BY
AnyOrder(uid) ==
    LET ids == LoanIdsOf(uid)
        n == Cardinality(ids)
    IN  {o \in [1..n -> ids] : \A i, j \in 1..n : i # j => o[i] # o[j]}

\* the orders ORDER BY taken_at DESC allows for the loans of uid
NewestFirst(uid) ==
    LET ids == LoanIdsOf(uid)
        n == Cardinality(ids)
    IN  {o \in [1..n -> ids] :
            /\ \A i, j \in 1..n : i # j => o[i] # o[j]
            /\ \A i, j \in 1..n : i < j => loans[o[i]].taken_at >= loans[o[j]].taken_at}

\* SELECT * FROM loans WHERE user_id=$1 ORDER BY taken_at DESC
LoansSelect(s) ==
    /\ Pending(s, "loans", "select")
    /\ \E o \in NewestFirst(reqs[s].user[1].id) :
        reqs' = [reqs EXCEPT ![s] =
            Finish(@, Some([status |-> 200, success |-> TRUE,
                            loans |-> [i \in DOMAIN o |-> loans[o[i]]]]))]
    /\ UNCHANGED <<users, users_id_seq, loans, cards, now, issued>>

\* --------------------------------------------------------- change-password
\* SELECT password; bcrypt.compare; bcrypt.hash; the UPDATE is sent
ChangePasswordSelect(s) ==
    /\ Pending(s, "change-password", "select")
    /\ reqs' = [reqs EXCEPT ![s] =
            IF ~bcryptCompare(reqs[s].body.oldPassword, users[reqs[s].user[1].id].password)
            THEN Finish(@, Some(Response(401, FALSE, "Incorrect old password")))
            ELSE [@ EXCEPT !.pc = "update"]]
    /\ UNCHANGED <<users, users_id_seq, loans, cards, now, issued>>

\* UPDATE users SET password=$1 WHERE id=$2
ChangePasswordUpdate(s) ==
    /\ Pending(s, "change-password", "update")
    /\ \E salt \in Salts :
        users' = [users EXCEPT ![reqs[s].user[1].id].password =
                        bcryptHash(reqs[s].body.newPassword, salt)]
    /\ reqs' = [reqs EXCEPT ![s] =
            Finish(@, Some(Response(200, TRUE, "Password changed successfully")))]
    /\ UNCHANGED <<users_id_seq, loans, cards, now, issued>>

\* ------------------------------------------------------------------- cards
\* SELECT * FROM cards WHERE user_id=$1
CardsSelect(s) ==
    /\ Pending(s, "cards", "select")
    /\ reqs' = [reqs EXCEPT ![s] =
            Finish(@, Some([status |-> 200, success |-> TRUE,
                            cards |-> {c \in cards : c.user_id = reqs[s].user[1].id}]))]
    /\ UNCHANGED <<users, users_id_seq, loans, cards, now, issued>>

\* ------------------------------------------------------------------- clock
ClockValues == (0..MaxSkew) \cup ((ExpiresIn - MaxSkew)..(ExpiresIn + MaxSkew))

Tick ==
    /\ \E t \in ClockValues : t > now /\ now' = t
    /\ UNCHANGED <<users, users_id_seq, loans, cards, reqs, issued>>

\* ------------------------------------------------------ inputs of requests
Names == {"Alice"}
Emails == {"a@bank", "b@bank"}
Passwords == {"pw1", "pw2"}

SignupBody(name, email, password, income, file) ==
    [name |-> name, email |-> email, password |-> password, income |-> income,
     file |-> file]

\* one body for each missing required field
SignupBodiesInvalid ==
    {SignupBody("", "a@bank", "pw1", Absent, FALSE),
     SignupBody("Alice", "", "pw1", Absent, FALSE),
     SignupBody("Alice", "a@bank", "", Absent, FALSE)}

SignupBodies(route, emails, passwords, incomes) ==
    {SignupBody(n, e, p, i, f) :
        n \in Names, e \in emails, p \in passwords, i \in incomes,
        f \in IF route = "signup-with-file" THEN BOOLEAN ELSE {FALSE}}

SigninBodies(emails, passwords) ==
    [email : emails \cup {""}, password : passwords \cup {""}]

TakeLoanBodies(amounts) == [amount : amounts]

ChangePasswordBodies(passwords) ==
    [oldPassword : passwords \cup {""}, newPassword : passwords \cup {""}]

\* the issued tokens, signed again by somebody who does not hold JWT_SECRET
Forged == {[tok EXCEPT !.sig = OtherSecret] : tok \in issued}

\* a token signed with JWT_SECRET whose user row is not in the table (ids
\* start at 1)
Orphans == {jwtSign([id |-> 0, email |-> "gone@bank"], JWT_SECRET, 0)}

Headers(schemes, tokens) ==
    {Null} \cup {Header(sc, tok) : sc \in schemes, tok \in tokens}

Schemes == {"Bearer", "", "Basic"}

\* -------------------------------------------------------------------- Init
\* the state after initDb on a new database
Init ==
    /\ users = << >>
    /\ users_id_seq = 0
    /\ loans = << >>
    /\ cards = {}
    /\ reqs = [s \in Slots |-> Idle]
    /\ now = 0
    /\ issued = {}

\* the users table after n signups (emails e[1..n], password pw, incomes inc)
Registered(e, pw, inc) ==
    [id \in DOMAIN e |-> UserRow(id, "Alice", e[id], bcryptHash(pw, 1), inc[id], Null)]

\* the token signin returns for a row at time t
TokenOf(row, t) == jwtSign([id |-> row.id, email |-> row.email], JWT_SECRET, t)

\* ------------------------------------------------------------ registration
\* Concurrent registrations through both endpoints on a new database.
SignupIncomes == {Absent, Num(1), Str("0")}

Signup(s) ==
    \/ SignupStart(s, "signup", SignupBodiesInvalid \cup
            SignupBodies("signup", Emails, {"pw1"}, SignupIncomes))
    \/ SignupExists(s, "signup")
    \/ SignupInsert(s, "signup")

SignupWithFile(s) ==
    \/ SignupStart(s, "signup-with-file", SignupBodiesInvalid \cup
            SignupBodies("signup-with-file", Emails, {"pw1"}, SignupIncomes))
    \/ SignupExists(s, "signup-with-file")
    \/ SignupInsert(s, "signup-with-file")

NextSignup ==
    \E s \in Slots :
        \/ Signup(s)
        \/ SignupWithFile(s)
        \/ Release(s)

SpecSignup == Init /\ [][NextSignup]_vars

\* ------------------------------------------------------------------ ledger
\* Two registered users, signed in at time 0, taking loans concurrently.
LedgerIncomes == {Null, Some(0), Some(1)}
LedgerAmounts ==
    {Absent, Num(0), Num(1), Num(3), Num(4), Num(0 - DefaultBalance - 1), Str("abc"), Str("0")}

InitLedger ==
    /\ \E i1 \in LedgerIncomes :
        users = Registered(<<"a@bank", "b@bank">>, "pw1", <<i1, Some(1)>>)
    /\ users_id_seq = 2
    /\ loans = << >>
    /\ cards = {}
    /\ reqs = [s \in Slots |-> Idle]
    /\ now = 0
    /\ issued = {TokenOf(users[id], 0) : id \in DOMAIN users}

LedgerHeaders == Headers({"Bearer"}, issued)

NextLedger ==
    \E s \in Slots :
        \/ ProtectedStart(s, "take-loan", LedgerHeaders)
        \/ GateSelect(s, "take-loan", TakeLoanBodies(LedgerAmounts))
        \/ TakeLoanSelect(s)
        \/ TakeLoanInsert(s)
        \/ TakeLoanUpdate(s)
        \/ Release(s)

SpecLedger == InitLedger /\ [][NextLedger]_vars

\* ---------------------------------------------------------- authentication
\* Two registered users, the first of whom signed in at time 0; clients
\* present tokens of every kind to the five protected routes while the clock
\* advances.
InitGate ==
    /\ users = Registered(<<"a@bank", "b@bank">>, "pw1", <<Some(1), Some(1)>>)
    /\ users_id_seq = 2
    /\ loans = << >>
    /\ cards = {}
    /\ reqs = [s \in Slots |-> Idle]
    /\ now = 0
    /\ issued = {TokenOf(users[1], 0)}

AuthHeaders ==
    {Null} \cup {Header(sc, tok) : sc \in Schemes, tok \in issued}
           \cup {Header("Bearer", tok) : tok \in Forged \cup Orphans}

GateBodies(op) ==
    CASE op = "take-loan" -> TakeLoanBodies({Num(3)})
      [] op = "change-password" ->
            {[oldPassword |-> "pw1", newPassword |-> "pw2"],
             [oldPassword |-> "pw1", newPassword |-> ""]}
      [] OTHER -> {NoBody}

ProtectedOps == {"user", "take-loan", "loans", "change-password", "cards"}

NextGate ==
    \/ \E s \in Slots :
        \/ \E op \in ProtectedOps : ProtectedStart(s, op, AuthHeaders)
        \/ \E op \in ProtectedOps : GateSelect(s, op, GateBodies(op))
        \/ TakeLoanSelect(s)
        \/ TakeLoanInsert(s)
        \/ TakeLoanUpdate(s)
        \/ LoansSelect(s)
        \/ ChangePasswordSelect(s)
        \/ ChangePasswordUpdate(s)
        \/ CardsSelect(s)
        \/ Release(s)
    \/ Tick

SpecGate == InitGate /\ [][NextGate]_vars

\* ---------------------------------------------------------------- sessions
\* Two registered users sign in, use their tokens and change their passwords
\* while the clock advances.
InitSession ==
    /\ users = Registered(<<"a@bank", "b@bank">>, "pw1", <<Some(1), Some(1)>>)
    /\ users_id_seq = 2
    /\ loans = << >>
    /\ cards = {}
    /\ reqs = [s \in Slots |-> Idle]
    /\ now = 0
    /\ issued = {}

SessionHeaders == Headers({"Bearer"}, issued)

SessionOps == {"user", "change-password"}

SessionBodies(op) ==
    IF op = "change-password" THEN ChangePasswordBodies(Passwords) ELSE {NoBody}

NextSession ==
    \/ \E s \in Slots :
        \/ SigninStart(s, SigninBodies(Emails \cup {"c@bank"}, Passwords))
        \/ SigninSelect(s)
        \/ \E op \in SessionOps : ProtectedStart(s, op, SessionHeaders)
        \/ \E op \in SessionOps : GateSelect(s, op, SessionBodies(op))
        \/ ChangePasswordSelect(s)
        \/ ChangePasswordUpdate(s)
        \/ Release(s)
    \/ Tick

SpecSession == InitSession /\ [][NextSession]_vars

\* ------------------------------------------------------------ whole system
\* Every route with every input, on a new database.  The other specifications
\* are this one restricted to some routes and inputs, each started in a state
\* that signup and signin reach from Init; SpecFaults adds writes that fail
\* and SpecReads starts with rows in cards.
AllBodies(op) ==
    CASE op = "take-loan" -> TakeLoanBodies(LedgerAmounts)
      [] op = "change-password" -> ChangePasswordBodies(Passwords)
      [] OTHER -> {NoBody}

Next ==
    \/ \E s \in Slots :
        \/ Signup(s)
        \/ SignupWithFile(s)
        \/ SigninStart(s, SigninBodies(Emails \cup {"c@bank"}, Passwords))
        \/ SigninSelect(s)
        \/ \E op \in ProtectedOps : ProtectedStart(s, op, AuthHeaders)
        \/ \E op \in ProtectedOps : GateSelect(s, op, AllBodies(op))
        \/ TakeLoanSelect(s)
        \/ TakeLoanInsert(s)
        \/ TakeLoanUpdate(s)
        \/ LoansSelect(s)
        \/ ChangePasswordSelect(s)
        \/ ChangePasswordUpdate(s)
        \/ CardsSelect(s)
        \/ Release(s)
    \/ Tick

Spec == Init /\ [][Next]_vars

\* the same system when every client waits for the answer to its request
\* before it sends the next one: a request of user u starts only while no
\* other request carrying a token of u is in flight
InFlight(s) == reqs[s].pc \notin {"idle", "done"}

Busy(id) ==
    \E s \in Slots :
        /\ InFlight(s)
        /\ reqs[s].op \notin {"signup", "signup-with-file", "signin"}
        /\ reqs[s].auth # Null
        /\ reqs[s].auth[1].token.id = id

SequentialHeaders == Headers({"Bearer"}, {tok \in issued : ~Busy(tok.id)})

NextSequential ==
    \E s \in Slots :
        \/ ProtectedStart(s, "take-loan", SequentialHeaders)
        \/ GateSelect(s, "take-loan", TakeLoanBodies(LedgerAmounts))
        \/ TakeLoanSelect(s)
        \/ TakeLoanInsert(s)
        \/ TakeLoanUpdate(s)
        \/ Release(s)

SpecSequential == InitLedger /\ [][NextSequential]_vars

\* ----------------------------------------------------------------- outcomes
\* the outcome class that the status and message of a response stand for
Outcome(r) ==
    LET res == r.res[1] IN
    IF res.success THEN "Success"
    ELSE CASE res.message \in {"Authorization header missing",
                               "Invalid or expired token", "User not found"}
                -> "Unauthenticated"
           [] res.message \in {"Missing required fields", "Missing credentials",
                               "Missing amount", "Missing passwords"}
                -> "InvalidInput"
           [] res.message = "Email already registered" -> "DuplicateEmail"
           [] res.message \in {"Invalid email or password", "Incorrect old password"}
                -> "InvalidCredentials"
           [] res.message = "Maximum loan based on income is" -> "EligibilityExceeded"
           [] OTHER -> "ServerError"

Done(s, op) == reqs[s].op = op /\ reqs[s].pc = "done"

Succeeded(s, op) == Done(s, op) /\ reqs[s].res[1].success

\* a take-loan request whose handler body has read its amount
HasAmount(s) == reqs[s].op = "take-loan" /\ reqs[s].body # NoBody

AmountOf(s) == parseFloat(reqs[s].body.amount)

RECURSIVE SumAmounts(_)
SumAmounts(S) ==
    IF S = {} THEN 0
    ELSE LET s == CHOOSE x \in S : TRUE IN Add(AmountOf(s), SumAmounts(S \ {s}))

\* ---------------------------------------------------------------- claims
\* C1: when N >= 2 takeLoan requests of one user, each for a positive amount,
\* run in any interleaving, have all returned success and are the only loans
\* of that user, the stored balance is the initial balance plus the sum of
\* the N amounts.
C1_NoLostUpdate ==
    \A u \in UserIds :
        LET done == {s \in Slots : Succeeded(s, "take-loan") /\ reqs[s].user[1].id = u} IN
        (/\ Cardinality(done) >= 2
         /\ \A s \in done : reqs[s].body.amount.t = "num" /\ reqs[s].body.amount.n > 0
         /\ Cardinality(LoanIdsOf(u)) = Cardinality(done)
         /\ ~Busy(u))
        => users[u].balance = Add(DefaultBalance, SumAmounts(done))

\* the steps of one takeLoan: success is answered by the balance update only,
\* which stores the balance read before plus the amount and returns it; the
\* insert adds one active loan row of the amount; no other step touches the
\* user's loans
C2_Step(s) ==
    LET r == reqs[s]
        r2 == reqs'[s]
        u == r.user[1].id
        new == LoanIdsOf(u)' \ LoanIdsOf(u)
    IN  /\ (r2.pc = "done" /\ r2.res[1].success) =>
                /\ r.pc = "update"
                /\ users'[u].balance = Add(r.user[1].balance, AmountOf(s))
                /\ r2.res[1].newBalance = JsonNumber(users'[u].balance)
        /\ r2.pc = "update" => r.pc \in {"insert", "update"}
        /\ IF r.pc = "insert" /\ r2.pc = "update"
           THEN /\ Cardinality(new) = 1
                /\ \A i \in new : /\ loans'[i].amount = AmountOf(s)
                                  /\ loans'[i].status = "active"
           ELSE new = {}
        /\ \A i \in LoanIdsOf(u) : loans'[i] = loans[i]

\* C2: a takeLoan that runs with no other request of its user in flight and
\* returns success leaves the balance at the balance before the call plus the
\* amount, returns that stored balance as newBalance, and adds exactly one
\* loan row of that user, with that amount and status 'active'.
C2_SequentialTakeLoan ==
    [][\A s \in Slots :
          (reqs[s].op = "take-loan" /\ InFlight(s) /\ reqs[s].user # Null) => C2_Step(s)]_vars

C2_Witness ==
    \E s \in Slots :
        /\ Succeeded(s, "take-loan")
        /\ reqs[s].body.amount = Num(3)
        /\ reqs[s].res[1].newBalance = Some(DefaultBalance + 3)
        /\ users[reqs[s].user[1].id].balance = DefaultBalance + 3

IncomeOf(u) == IF users[u].monthly_income = Null THEN 0 ELSE users[u].monthly_income[1]

NumericRequest(s) ==
    /\ Done(s, "take-loan")
    /\ HasAmount(s)
    /\ reqs[s].body.amount.t = "num"

\* C3 as claimed: the ceiling is 3 x income (0 when absent); a takeLoan for
\* exactly the ceiling succeeds and one for the ceiling plus one is rejected
\* with EligibilityExceeded.
C3_CeilingAsClaimed ==
    \A s \in Slots :
        NumericRequest(s) =>
            LET n == reqs[s].body.amount.n
                c == 3 * IncomeOf(reqs[s].user[1].id)
            IN  /\ n = c => Outcome(reqs[s]) = "Success"
                /\ n = c + 1 => /\ Outcome(reqs[s]) = "EligibilityExceeded"
                                /\ reqs[s].res[1].maxLoan = Some(c)

\* C3 for amounts other than 0: a takeLoan for exactly 3 x income succeeds and
\* one for 3 x income + 1 is rejected with EligibilityExceeded and told the
\* ceiling; the JSON number 0 is rejected with InvalidInput whatever the
\* ceiling, also when the ceiling is 0.
C3_Ceiling ==
    \A s \in Slots :
        NumericRequest(s) =>
            LET n == reqs[s].body.amount.n
                c == 3 * IncomeOf(reqs[s].user[1].id)
            IN  /\ (n = c /\ n # 0) => Outcome(reqs[s]) = "Success"
                /\ n = 0 => Outcome(reqs[s]) = "InvalidInput"
                /\ (n = c + 1 /\ n # 0) => /\ Outcome(reqs[s]) = "EligibilityExceeded"
                                           /\ reqs[s].res[1].maxLoan = Some(c)

C3_Witness ==
    \E s1, s2 \in Slots :
        /\ NumericRequest(s1) /\ NumericRequest(s2)
        /\ users[reqs[s1].user[1].id].monthly_income = Some(1)
        /\ reqs[s1].body.amount = Num(3) /\ Outcome(reqs[s1]) = "Success"
        /\ users[reqs[s2].user[1].id].monthly_income = Null
        /\ reqs[s2].body.amount = Num(1) /\ Outcome(reqs[s2]) = "EligibilityExceeded"

InvalidAmount(a) ==
    \/ a.t = "absent"
    \/ IsNaN(parseFloat(a))
    \/ parseFloat(a) <= 0

\* C4: a takeLoan whose amount is absent, non-numeric, zero or negative is
\* rejected with InvalidInput as soon as the handler reads it: it never
\* reaches the loan insert or the balance update.
C4_InvalidAmountRejected ==
    \A s \in Slots :
        (HasAmount(s) /\ InvalidAmount(reqs[s].body.amount)) =>
            /\ reqs[s].pc = "done"
            /\ Outcome(reqs[s]) = "InvalidInput"

\* C10: every stored balance is a number greater than or equal to 0.
C10_BalanceNonNegative ==
    \A u \in UserIds : ~IsNaN(users[u].balance) /\ users[u].balance >= 0

IsSignup(s) == reqs[s].op \in {"signup", "signup-with-file"}

RequiredPresent(body) == body.name # "" /\ body.email # "" /\ body.password # ""

\* C8: a registration with all required fields that creates no row, because
\* its email is held by a user or is being registered by a concurrent
\* request, ends with DuplicateEmail, never with a server fault.
C8_DuplicateEmailReported ==
    \A s \in Slots :
        (/\ IsSignup(s)
         /\ reqs[s].pc = "done"
         /\ RequiredPresent(reqs[s].body)
         /\ ~reqs[s].res[1].success)
        => Outcome(reqs[s]) = "DuplicateEmail"

\* C9: no two user rows have the same email.
C9_EmailUnique ==
    \A u1, u2 \in UserIds : users[u1].email = users[u2].email => u1 = u2

\* two registrations of one email raced, through different endpoints: one
\* created the row and the other's INSERT was refused
C9_Witness ==
    \E s1, s2 \in Slots :
        /\ reqs[s1].op = "signup" /\ reqs[s2].op = "signup-with-file"
        /\ reqs[s1].pc = "done" /\ reqs[s2].pc = "done"
        /\ reqs[s1].body.email = reqs[s2].body.email
        /\ reqs[s1].res[1].status = 201
        /\ reqs[s2].res[1].status = 500
        /\ Cardinality(UsersByEmail(reqs[s1].body.email)) = 1
        /\ Cardinality(UserIds) = 2

IsProtected(r) == r.op \in ProtectedOps

Rejected(r) == r.pc = "done" /\ Outcome(r) = "Unauthenticated"

\* a request is in its handler body, or has an answer other than
\* Unauthenticated, only with req.user set from a token signed with the
\* server's secret whose id is a row of users
C5_Admitted ==
    \A s \in Slots :
        IsProtected(reqs[s]) =>
            LET r == reqs[s] IN
            /\ r.pc \in {"select", "insert", "update"} => r.user # Null
            /\ (r.pc = "done" /\ ~Rejected(r)) => r.user # Null
            /\ r.user # Null =>
                    /\ r.auth # Null
                    /\ r.auth[1].token.sig = JWT_SECRET
                    /\ r.auth[1].token.id \in UserIds
                    /\ r.user[1].id = r.auth[1].token.id

\* the gate's steps: what it rejects, that req.user is set by the gate's
\* SELECT only, and that a request without req.user writes nothing
C5_Step(s) ==
    LET r == reqs[s]
        r2 == reqs'[s]
    IN  (IsProtected(r2) /\ r2 # r) =>
            /\ (r.op = "idle" /\ (\/ r2.auth = Null
                                  \/ r2.auth[1].token.sig # JWT_SECRET
                                  \/ now >= r2.auth[1].token.exp))
                    => Rejected(r2)
            /\ (r.pc = "gate" /\ r.auth[1].token.id \notin UserIds) => Rejected(r2)
            /\ (r2.user # Null /\ r.op = "idle") => FALSE
            /\ (r2.user # Null /\ r.op # "idle" /\ r.user = Null) => r.pc = "gate"
            /\ r2.user = Null =>
                    /\ users' = users /\ users_id_seq' = users_id_seq
                    /\ loans' = loans /\ cards' = cards

\* C5: a protected handler runs only for a request whose token the gate has
\* validated (signature and expiry) and whose user the gate has found; a
\* request without a header, with a token signed by another secret, with an
\* expired token or with a token of a user not in the store ends
\* Unauthenticated, and no step of a request that was not admitted writes to
\* the store.
C5_GateBeforeHandler == []C5_Admitted /\ [][\A s \in Slots : C5_Step(s)]_vars

\* an expired token has been turned away while a handler admitted with a
\* good token is about to write
C5_Witness ==
    \E s1, s2 \in Slots :
        /\ IsProtected(reqs[s1]) /\ Rejected(reqs[s1])
        /\ reqs[s1].auth # Null
        /\ reqs[s1].auth[1].token \in issued
        /\ reqs[s1].auth[1].scheme = "Bearer"
        /\ Pending(s2, "change-password", "update")

\* the steps of one signin against the rows its SELECT sees
C6_Step(s) ==
    LET r == reqs[s]
        r2 == reqs'[s]
        match == {u \in UserIds :
                    /\ users[u].email = r.body.email
                    /\ \E salt \in Salts :
                            users[u].password = bcryptHash(r.body.password, salt)}
    IN  /\ (r.op = "idle" /\ r2.op = "signin" /\ r2.body.email # "" /\ r2.body.password # "")
                => r2.pc = "select"
        /\ (r.op = "signin" /\ r.pc = "select" /\ r2.pc = "done") =>
                IF match # {}
                THEN /\ r2.res[1].success
                     /\ r2.res[1].token.id \in match
                     /\ r2.res[1].token.sig = JWT_SECRET
                     /\ issued' = issued \cup {r2.res[1].token}
                ELSE /\ r2.res[1] = Response(401, FALSE, "Invalid email or password")
                     /\ Outcome(r2) = "InvalidCredentials"
                     /\ issued' = issued

\* C6: signin issues a token exactly when a user with the email exists and
\* the password is the one hashed in that user's row at the moment of the
\* lookup, and the token carries that user's id; every other attempt with
\* both fields present gets the one InvalidCredentials answer and no token.
C6_Authenticate == [][\A s \in Slots : C6_Step(s)]_vars

\* a signin with the new password succeeded after a password change, and one
\* with the old password failed
C6_Witness ==
    \E s1, s2 \in Slots :
        /\ Succeeded(s1, "signin") /\ reqs[s1].body.password = "pw2"
        /\ Done(s2, "signin") /\ reqs[s2].body = [email |-> reqs[s1].body.email, password |-> "pw1"]
        /\ Outcome(reqs[s2]) = "InvalidCredentials"

PresentsIssued(r) ==
    /\ IsProtected(r)
    /\ r.auth # Null
    /\ r.auth[1].scheme = "Bearer"
    /\ r.auth[1].token \in issued

\* the gate's steps for a request that presents an issued token
C7_Step(s) ==
    LET r == reqs[s]
        r2 == reqs'[s]
    IN  /\ (r.op = "idle" /\ PresentsIssued(r2)) =>
                LET tok == r2.auth[1].token IN
                /\ now < tok.iat + ExpiresIn => r2.pc = "gate"
                /\ now > tok.iat + ExpiresIn => Rejected(r2)
        /\ (PresentsIssued(r) /\ r.pc = "gate" /\ r2 # r) =>
                LET tok == r.auth[1].token IN
                /\ r2.user # Null
                /\ r2.user[1].id = tok.id
                /\ r2.user[1].email = tok.email
                /\ r2.user[1] = Project(users[tok.id])

\* C7: a token that signin issued for user U at time iat is admitted by the
\* gate at every time before iat + 24h, where it resolves to U's row, and is
\* rejected at every time after iat + 24h.
C7_TokenLifetime == [][\A s \in Slots : C7_Step(s)]_vars

\* one token was admitted in its 24th hour and turned away in its 26th
C7_Witness ==
    \E s1, s2 \in Slots :
        /\ Succeeded(s1, "user") /\ Done(s2, "user") /\ Rejected(reqs[s2])
        /\ reqs[s1].auth = reqs[s2].auth
        /\ reqs[s1].auth[1].token \in issued
        /\ reqs[s1].res[1].user.id = reqs[s1].auth[1].token.id
        /\ now > reqs[s1].auth[1].token.iat + ExpiresIn

\* C11: every loan row's amount is a number that is at most 3 x the income of
\* its owner (0 when absent); no operation changes an income, so the income in
\* the store is the income at issuance.
C11_LoanWithinCeiling ==
    \A i \in 1..Len(loans) :
        /\ ~IsNaN(loans[i].amount)
        /\ loans[i].amount <= 3 * IncomeOf(loans[i].user_id)

\* ------------------------------------------------------------ store faults
\* A statement of take-loan can fail in the store (connection lost, constraint
\* or type error): db.query rejects and the handler's catch block answers.
\* mutation of StoreFailure: the catch block answers as if the writes were made
StoreFailureIgnored(r) ==
    FinishHandler(r, Some([status |-> 201, success |-> TRUE, message |-> "Loan approved",
                           newBalance |-> JsonNumber(r.loc.newBalance)]))

\* catch (err): 500 'Server error'
StoreFailure(r) == FinishHandler(r, Some(Response(500, FALSE, "Server error")))

\* INSERT INTO loans fails: no row is written
TakeLoanInsertFails(s) ==
    /\ Pending(s, "take-loan", "insert")
    /\ reqs' = [reqs EXCEPT ![s] = StoreFailure(@)]
    /\ UNCHANGED <<users, users_id_seq, loans, cards, now, issued>>

\* UPDATE users SET balance fails: the balance is not written
TakeLoanUpdateFails(s) ==
    /\ Pending(s, "take-loan", "update")
    /\ reqs' = [reqs EXCEPT ![s] = StoreFailure(@)]
    /\ UNCHANGED <<users, users_id_seq, loans, cards, now, issued>>

\* Two registered users taking loans concurrently on a store whose writes
\* can fail.
FaultAmounts == {Absent, Num(1), Num(3), Num(4)}

NextFaults ==
    \E s \in Slots :
        \/ ProtectedStart(s, "take-loan", LedgerHeaders)
        \/ GateSelect(s, "take-loan", TakeLoanBodies(FaultAmounts))
        \/ TakeLoanSelect(s)
        \/ TakeLoanInsert(s)
        \/ TakeLoanInsertFails(s)
        \/ TakeLoanUpdate(s)
        \/ TakeLoanUpdateFails(s)
        \/ Release(s)

SpecFaults == InitLedger /\ [][NextFaults]_vars

\* the write steps of one take-loan: the INSERT either appends the row or ends
\* the request with a server error; the UPDATE either stores newBalance and
\* answers success or ends the request with a server error; a failed
\* statement writes nothing and is not run again
C12_Step(s) ==
    LET r == reqs[s]
        r2 == reqs'[s]
        u == r.user[1].id
    IN  /\ (r2.pc = "done" /\ r.pc # "done" /\ r2.res[1].success) =>
                /\ r.pc = "update"
                /\ users'[u].balance = r.loc.newBalance
                /\ \E i \in LoanIdsOf(u) : loans'[i].amount = r.loc.amt
        /\ (r.pc = "insert" /\ r2 # r) =>
                \/ /\ r2.pc = "update"
                   /\ loans' = Append(loans, LoanRow(Len(loans) + 1, u, r.loc.amt, now))
                \/ /\ r2.pc = "done" /\ Outcome(r2) = "ServerError"
                   /\ loans' = loans /\ users' = users
        /\ (r.pc = "update" /\ r2 # r) =>
                /\ r2.pc = "done"
                /\ \/ r2.res[1].success /\ users'[u].balance = r.loc.newBalance
                   \/ Outcome(r2) = "ServerError" /\ loans' = loans /\ users' = users

\* C12: when a write of take-loan can fail, success is answered only after
\* both the loan insert and the balance update were made; a failed write ends
\* the request with a failure answer and is not retried.
C12_NoSilentPartialCommit ==
    [][\A s \in Slots :
          (reqs[s].op = "take-loan" /\ reqs[s].user # Null) => C12_Step(s)]_vars

\* the loan row was written, the balance update failed, and the caller was
\* told of a failure
C12_Witness ==
    \E s \in Slots :
        /\ Done(s, "take-loan") /\ Outcome(reqs[s]) = "ServerError"
        /\ LET u == reqs[s].user[1].id IN
           /\ Cardinality(LoanIdsOf(u)) = 1
           /\ \A i \in LoanIdsOf(u) : loans[i].amount = AmountOf(s)
           /\ users[u].balance = DefaultBalance

\* C13: a change-password whose oldPassword does not verify against the hash
\* stored for the caller when the handler looks it up ends with
\* InvalidCredentials, and its steps leave every table as it was.
C13_WrongOldPasswordRejected ==
    [][\A s \in Slots :
          LET r == reqs[s]
              r2 == reqs'[s]
          IN  (/\ r.op = "change-password" /\ r.pc = "select" /\ r2 # r
               /\ \A salt \in Salts :
                    users[r.user[1].id].password # bcryptHash(r.body.oldPassword, salt))
              => /\ r2.pc = "done"
                 /\ Outcome(r2) = "InvalidCredentials"
                 /\ users' = users /\ users_id_seq' = users_id_seq
                 /\ loans' = loans /\ cards' = cards]_vars

\* a change-password with the wrong old password was refused and the hash of
\* the first password is still the stored one
C13_Witness ==
    \E s \in Slots :
        /\ Done(s, "change-password")
        /\ Outcome(reqs[s]) = "InvalidCredentials"
        /\ reqs[s].body.oldPassword = "pw2"
        /\ users[reqs[s].user[1].id].password = bcryptHash("pw1", 1)

\* --------------------------------------------------------- long passwords
\* Two users registered with a password of 73 bytes sign in and change their
\* passwords.
PasswordsLong == {"pw1"} \cup LongPasswords

InitLong ==
    /\ users = Registered(<<"a@bank", "b@bank">>, "<72 bytes>A", <<Some(1), Some(1)>>)
    /\ users_id_seq = 2
    /\ loans = << >>
    /\ cards = {}
    /\ reqs = [s \in Slots |-> Idle]
    /\ now = 0
    /\ issued = {}

NextLong ==
    \E s \in Slots :
        \/ SigninStart(s, SigninBodies(Emails, PasswordsLong))
        \/ SigninSelect(s)
        \/ ProtectedStart(s, "change-password", SessionHeaders)
        \/ GateSelect(s, "change-password", ChangePasswordBodies(PasswordsLong))
        \/ ChangePasswordSelect(s)
        \/ ChangePasswordUpdate(s)
        \/ Release(s)

SpecLong == InitLong /\ [][NextLong]_vars

\* what signin would answer for user u and password pw in the next state
SigninWouldSucceed(u, pw) == SigninAnswer({users'[u]}, pw, now').success

\* C14: the step in which a change-password (old, new) with new # old
\* succeeds leaves a store in which signin with new succeeds and signin with
\* old fails, and a stored password changes in no other kind of step, so
\* this lasts until the next successful change-password of the user.
C14_NewReplacesOld ==
    [][/\ \A s \in Slots :
            LET r == reqs[s]
                r2 == reqs'[s]
            IN  (/\ r.op = "change-password" /\ r.pc = "update"
                 /\ r2.pc = "done" /\ r2.res[1].success
                 /\ r.body.newPassword # r.body.oldPassword)
                => /\ SigninWouldSucceed(r.user[1].id, r.body.newPassword)
                   /\ ~SigninWouldSucceed(r.user[1].id, r.body.oldPassword)
       /\ \A u \in UserIds :
            users'[u].password # users[u].password =>
                \E s \in Slots :
                    /\ reqs[s].op = "change-password" /\ reqs[s].pc = "update"
                    /\ reqs[s].user[1].id = u
                    /\ reqs'[s].pc = "done" /\ reqs'[s].res[1].success]_vars

\* the gate admits a request that presents tok now
Admits(tok) ==
    LET g == GateCheck(Header("Bearer", tok), now) IN
    /\ g.ok
    /\ GateRows(g.decoded[1].id) = {users[tok.id]}

\* C15: in every reachable state, whatever signins and password changes came
\* before, the gate admits every issued token whose expiry has not come.
C15_NoRevocation ==
    \A tok \in issued : now < tok.exp => tok.id \in UserIds /\ Admits(tok)

\* in the last hour of a token its user has changed the password and has
\* signed in with the new one
C15_Witness ==
    \E tok \in issued :
        /\ now > tok.iat /\ now < tok.exp /\ now >= ExpiresIn - MaxSkew
        /\ bcryptCompare("pw2", users[tok.id].password)
        /\ \E s \in Slots :
                /\ Succeeded(s, "signin")
                /\ reqs[s].body.password = "pw2"
                /\ reqs[s].res[1].user.id = tok.id

\* ------------------------------------------------------------------- reads
\* Two registered users, signed in at time 0, take loans and read their
\* profile, loans and cards while the clock advances.  The server creates the
\* cards table and only reads it: its rows are written by other software, here
\* one card for each user.
CardRow(id, uid) ==
    [id |-> id, user_id |-> uid, card_number |-> "4000", card_type |-> "debit",
     expiry |-> Null, created_at |-> 0]

InitReads ==
    /\ users = Registered(<<"a@bank", "b@bank">>, "pw1", <<Some(1), Some(1)>>)
    /\ users_id_seq = 2
    /\ loans = << >>
    /\ cards = {CardRow(id, id) : id \in DOMAIN users}
    /\ reqs = [s \in Slots |-> Idle]
    /\ now = 0
    /\ issued = {TokenOf(users[id], 0) : id \in DOMAIN users}

ReadOps == {"user", "take-loan", "loans", "cards"}

ReadBodies(op) == IF op = "take-loan" THEN TakeLoanBodies({Num(1)}) ELSE {NoBody}

NextReads ==
    \/ \E s \in Slots :
        \/ \E op \in ReadOps : ProtectedStart(s, op, LedgerHeaders)
        \/ \E op \in ReadOps : GateSelect(s, op, ReadBodies(op))
        \/ TakeLoanSelect(s)
        \/ TakeLoanInsert(s)
        \/ TakeLoanUpdate(s)
        \/ LoansSelect(s)
        \/ CardsSelect(s)
        \/ Release(s)
    \/ Tick

SpecReads == InitReads /\ [][NextReads]_vars

\* the answering step of a read of user a: the profile is a's row as the gate
\* projects it, the loans are a's rows, each once, newest first, and the
\* cards are a's cards
C16_Step(s) ==
    LET r == reqs[s]
        r2 == reqs'[s]
        a == r.auth[1].token.id
    IN  (r2.pc = "done" /\ r.pc # "done" /\ r2.res[1].success) =>
            CASE r.op = "user" -> r2.res[1].user = Project(users[a])
              [] r.op = "loans" ->
                    LET L == r2.res[1].loans IN
                    /\ Len(L) = Cardinality(LoanIdsOf(a))
                    /\ {L[i].id : i \in DOMAIN L} = LoanIdsOf(a)
                    /\ \A i \in DOMAIN L : L[i] = loans[L[i].id] /\ L[i].user_id = a
                    /\ \A i, j \in DOMAIN L : i < j => L[i].taken_at >= L[j].taken_at
              [] r.op = "cards" ->
                    /\ r2.res[1].cards = {c \in cards : c.user_id = a}
                    /\ \A c \in r2.res[1].cards : c.user_id = a
              [] OTHER -> TRUE

\* C16: for every authenticated request of user A, /api/user returns A's
\* profile, /api/user/loans exactly A's loan rows newest first, and
\* /api/cards exactly A's cards: a function of A's rows alone.
C16_OwnDataOnly ==
    [][\A s \in Slots :
          (reqs[s].op \in {"user", "loans", "cards"} /\ reqs[s].auth # Null) => C16_Step(s)]_vars

\* both users hold a loan and a card; one user has been answered one loan row
\* and one card
C16_Witness ==
    \E s1, s2 \in Slots :
        /\ Succeeded(s1, "loans") /\ Succeeded(s2, "cards")
        /\ Len(loans) = 2 /\ loans[1].user_id # loans[2].user_id
        /\ Len(reqs[s1].res[1].loans) = 1
        /\ reqs[s1].res[1].loans[1].user_id = reqs[s1].user[1].id
        /\ Cardinality(reqs[s2].res[1].cards) = 1

\* ---------------------------------------------------------- all operations
\* Every route, with one or two inputs each: two registered users and a third
\* who registers, sign in, take loans, change passwords and read.
OpsSignupBodies ==
    {SignupBody("Alice", "c@bank", "pw1", Absent, FALSE),
     SignupBody("Alice", "a@bank", "pw1", Absent, FALSE)}

OpsBodies(op) ==
    CASE op = "take-loan" -> TakeLoanBodies({Num(1)})
      [] op = "change-password" ->
            {[oldPassword |-> "pw1", newPassword |-> "pw2"],
             [oldPassword |-> "pw2", newPassword |-> "pw2"]}
      [] OTHER -> {NoBody}

NextOps ==
    \E s \in Slots :
        \/ SignupStart(s, "signup", OpsSignupBodies)
        \/ SignupExists(s, "signup")
        \/ SignupInsert(s, "signup")
        \/ SignupStart(s, "signup-with-file", OpsSignupBodies)
        \/ SignupExists(s, "signup-with-file")
        \/ SignupInsert(s, "signup-with-file")
        \/ SigninStart(s, SigninBodies({"a@bank", "c@bank"}, Passwords))
        \/ SigninSelect(s)
        \/ \E op \in ProtectedOps : ProtectedStart(s, op, SessionHeaders)
        \/ \E op \in ProtectedOps : GateSelect(s, op, OpsBodies(op))
        \/ TakeLoanSelect(s)
        \/ TakeLoanInsert(s)
        \/ TakeLoanUpdate(s)
        \/ LoansSelect(s)
        \/ ChangePasswordSelect(s)
        \/ ChangePasswordUpdate(s)
        \/ CardsSelect(s)
        \/ Release(s)

SpecOps == InitSession /\ [][NextOps]_vars

\* no column of the record is the password column
NoPasswordColumn(rec) == "password" \notin DOMAIN rec

\* the records a response carries: itself, its user view, its loan rows and
\* its cards
NoHashInResponse(res) ==
    /\ NoPasswordColumn(res)
    /\ "user" \in DOMAIN res => NoPasswordColumn(res.user)
    /\ "loans" \in DOMAIN res => \A i \in DOMAIN res.loans : NoPasswordColumn(res.loans[i])
    /\ "cards" \in DOMAIN res => \A c \in res.cards : NoPasswordColumn(c)

\* C17: no response of any route and no req.user set by the gate has the
\* password column of a user row.
C17_NoHashLeaves ==
    \A s \in Slots :
        LET r == reqs[s] IN
        r.op # "idle" =>
            /\ r.res # Null => NoHashInResponse(r.res[1])
            /\ (IsProtected(r) /\ r.user # Null) => NoPasswordColumn(r.user[1])

\* signin has answered with a user view and the gate has attached one to a
\* request that was then answered with it
C17_Witness ==
    \E s1, s2 \in Slots :
        /\ Succeeded(s1, "signin")
        /\ reqs[s1].res[1].user.id \in UserIds
        /\ Succeeded(s2, "user")
        /\ reqs[s2].res[1].user = reqs[s2].user[1]

\* a request of user u is at the step that answers its route op with success
Completes(s, op, u) ==
    /\ reqs[s].op = op /\ reqs[s].pc = "update"
    /\ reqs[s].user[1].id = u
    /\ reqs'[s].pc = "done" /\ reqs'[s].res[1].success

\* C19: every step keeps every user row, with its id, name, email, income and
\* the other columns; the password changes only in the step that completes a
\* change-password of that user and the balance only in the step that
\* completes a take-loan of that user.
C19_Frame ==
    [][\A u \in UserIds :
          /\ u \in DOMAIN users'
          /\ [users'[u] EXCEPT !.password = users[u].password,
                               !.balance = users[u].balance] = users[u]
          /\ users'[u].password # users[u].password =>
                \E s \in Slots : Completes(s, "change-password", u)
          /\ users'[u].balance # users[u].balance =>
                \E s \in Slots : Completes(s, "take-loan", u)]_vars

\* a third user has registered, the first has taken a loan and changed the
\* password, and the row of the second is as it was
C19_Witness ==
    /\ UserIds = {1, 2, 3}
    /\ users[1].balance = DefaultBalance + 1
    /\ bcryptCompare("pw2", users[1].password)
    /\ users[2] = UserRow(2, "Alice", "b@bank", bcryptHash("pw1", 1), Some(1), Null)

\* C20: every loan row is 'active' and unsettled, and every step keeps every
\* row of loans as it is.
C20_LoansImmutable ==
    /\ [](\A i \in DOMAIN loans : loans[i].status = "active" /\ loans[i].paid_at = Null)
    /\ [][\A i \in DOMAIN loans : i \in DOMAIN loans' /\ loans'[i] = loans[i]]_vars

\* a user holds two loans and has changed the password since
C20_Witness ==
    /\ Len(loans) = 2
    /\ loans[1].user_id = loans[2].user_id
    /\ users[loans[1].user_id].balance = DefaultBalance + 2
    /\ bcryptCompare("pw2", users[loans[1].user_id].password)

\* ----------------------------------------------------------------- ceiling
\* Two users with income 10000, signed in at time 0, each sending one
\* take-loan at a time.
CeilingAmounts == {Num(30000), Num(30001), Num(100)}

InitCeiling ==
    /\ users = Registered(<<"a@bank", "b@bank">>, "pw1", <<Some(10000), Some(10000)>>)
    /\ users_id_seq = 2
    /\ loans = << >>
    /\ cards = {}
    /\ reqs = [s \in Slots |-> Idle]
    /\ now = 0
    /\ issued = {TokenOf(users[id], 0) : id \in DOMAIN users}

NextCeiling ==
    \E s \in Slots :
        \/ ProtectedStart(s, "take-loan", SequentialHeaders)
        \/ GateSelect(s, "take-loan", TakeLoanBodies(CeilingAmounts))
        \/ TakeLoanSelect(s)
        \/ TakeLoanInsert(s)
        \/ TakeLoanUpdate(s)
        \/ Release(s)

SpecCeiling == InitCeiling /\ [][NextCeiling]_vars

\* C18: for users with income 10000 and balance 50000 who send one request at
\* a time, whatever loans the user holds, a take-loan of 30001 ends
\* EligibilityExceeded with ceiling 30000 and one of 30000 or of 100 ends in
\* success with the balance before the call plus the amount: 80000 for 30000
\* on 50000, and 80100 for 100 on 80000; the stored balance of a user with
\* no request in flight is 50000 plus the amounts of the user's loans.
C18_CeilingNotReduced ==
    /\ \A s \in Slots :
            (Done(s, "take-loan") /\ HasAmount(s)) =>
                LET r == reqs[s]
                    before == r.user[1].balance
                IN  /\ AmountOf(s) = 30001 =>
                            /\ Outcome(r) = "EligibilityExceeded"
                            /\ r.res[1].maxLoan = Some(30000)
                    /\ AmountOf(s) \in {30000, 100} =>
                            /\ Outcome(r) = "Success"
                            /\ r.res[1].newBalance = Some(before + AmountOf(s))
                    /\ (AmountOf(s) = 30000 /\ before = 50000) =>
                            r.res[1].newBalance = Some(80000)
                    /\ (AmountOf(s) = 100 /\ before = 80000) =>
                            r.res[1].newBalance = Some(80100)
    /\ \A u \in UserIds :
            ~Busy(u) => users[u].balance = DefaultBalance + HeldAmounts(u, Len(loans))

\* holding a loan of 30000, a user has been refused 30001 and then granted
\* 100, with balance 80100
C18_Witness ==
    \E s1, s2 \in Slots :
        /\ Done(s1, "take-loan") /\ HasAmount(s1)
        /\ Done(s2, "take-loan") /\ HasAmount(s2)
        /\ reqs[s1].user[1].id = reqs[s2].user[1].id
        /\ reqs[s1].user[1].balance = 80000
        /\ AmountOf(s1) = 30001 /\ Outcome(reqs[s1]) = "EligibilityExceeded"
        /\ AmountOf(s2) = 100 /\ reqs[s2].res[1].newBalance = Some(80100)
        /\ users[reqs[s2].user[1].id].balance = 80100
        /\ [i \in DOMAIN loans |-> loans[i].amount] = <<30000, 100>>

\* the steps of one take-loan against the row in the store: the eligibility
\* test uses the stored income, the balance kept for the sum is the stored
\* balance at the handler's SELECT, and the balance written is that balance
\* plus the amount
C21_Step(s) ==
    LET r == reqs[s]
        r2 == reqs'[s]
        u == r.user[1].id
    IN  /\ (r.pc = "select" /\ r2 # r) =>
                IF Gt(AmountOf(s), Mul(IncomeOrZero(users[u].monthly_income), 3))
                THEN r2.pc = "done" /\ Outcome(r2) = "EligibilityExceeded"
                ELSE /\ r2.pc = "insert"
                     /\ r2.loc.amt = AmountOf(s)
                     /\ r2.loc.balance = users[u].balance
        /\ (r.pc = "insert" /\ r2.pc = "update") =>
                r2.loc.newBalance = Add(r.loc.balance, r.loc.amt)
        /\ (r.pc = "update" /\ r2.pc = "done" /\ r2.res[1].success) =>
                users'[u].balance = Add(r.loc.balance, r.loc.amt)

\* C21: take-loan decides and computes from the income and balance it reads
\* in the handler, not from req.user: a balance update of the same user that
\* is committed between the gate's read and the handler's read is part of
\* the balance this request writes.
C21_FreshRead ==
    [][\A s \in Slots :
          (reqs[s].op = "take-loan" /\ reqs[s].user # Null) => C21_Step(s)]_vars

\* the gate read balance 50000, another loan of 1 was committed, and this
\* request for 1 has written and answered 50002
C21_Witness ==
    \E s \in Slots :
        /\ Succeeded(s, "take-loan")
        /\ reqs[s].body.amount = Num(1)
        /\ reqs[s].user[1].balance = DefaultBalance
        /\ reqs[s].res[1].newBalance = Some(DefaultBalance + 2)
        /\ users[reqs[s].user[1].id].balance = DefaultBalance + 2

\* C22: a protected request whose Authorization header is not of the form
\* 'Bearer <token>' is never admitted: it ends Unauthenticated.
C22_BearerRequired ==
    \A s \in Slots :
        LET r == reqs[s] IN
        (IsProtected(r) /\ r.auth # Null /\ r.auth[1].scheme # "Bearer") => Rejected(r)

\* C24: a take-loan that ends with an outcome other than success has written
\* nothing: it is not answered from the step after its INSERT, and the step
\* that answers it leaves loans and every balance as they are.
C24_FailureWritesNothing ==
    [][\A s \in Slots :
          LET r == reqs[s]
              r2 == reqs'[s]
          IN  (/\ r2.op = "take-loan" /\ r2.pc = "done" /\ r2 # r
               /\ ~r2.res[1].success)
              => /\ r.pc # "update"
                 /\ loans' = loans
                 /\ \A u \in UserIds : users'[u].balance = users[u].balance]_vars

\* --------------------------------------------------------------- isolation
\* Two users, signed in at time 0, each sending one request at a time, take
\* loans and change their passwords concurrently.
IsolationOps == {"take-loan", "change-password"}

IsolationBodies(op) ==
    IF op = "take-loan" THEN TakeLoanBodies({Num(1), Num(3)})
    ELSE {[oldPassword |-> "pw1", newPassword |-> "pw2"],
          [oldPassword |-> "pw2", newPassword |-> "pw1"]}

NextIsolation ==
    \E s \in Slots :
        \/ \E op \in IsolationOps : ProtectedStart(s, op, SequentialHeaders)
        \/ \E op \in IsolationOps : GateSelect(s, op, IsolationBodies(op))
        \/ TakeLoanSelect(s)
        \/ TakeLoanInsert(s)
        \/ TakeLoanUpdate(s)
        \/ ChangePasswordSelect(s)
        \/ ChangePasswordUpdate(s)
        \/ Release(s)

SpecIsolation == InitLedger /\ [][NextIsolation]_vars

\* the loans of user a in the rows L, oldest first, without the columns that
\* come from the sequence and the clock all users share (id, taken_at)
LoansViewOf(L, a) ==
    LET own == SelectSeq(L, LAMBDA row : row.user_id = a) IN
    [i \in DOMAIN own |->
        [amount |-> own[i].amount, status |-> own[i].status, paid_at |-> own[i].paid_at]]

\* the request that moves in a step through slot s
Mover(s) == IF reqs'[s].op = "idle" THEN reqs[s] ELSE reqs'[s]

\* a step of a request of user b leaves the row and the loans of every other
\* user as they are
LocalRespect(b) ==
    \A a \in UserIds \ {b} :
        /\ users'[a] = users[a]
        /\ LoansViewOf(loans', a) = LoansViewOf(loans, a)

\* the effect of a step of a request r of user b on b's row and loans is
\* given by b's row, b's loans and the request
OwnEffect(r, r2, b) ==
    LET sameLoans == LoansViewOf(loans', b) = LoansViewOf(loans, b)
        sameRow == users'[b] = users[b]
    IN  CASE r.op = "take-loan" /\ r.pc = "select" ->
                /\ sameRow /\ sameLoans
                /\ IF Gt(parseFloat(r.body.amount),
                         Mul(IncomeOrZero(users[b].monthly_income), 3))
                   THEN r2.pc = "done" /\ Outcome(r2) = "EligibilityExceeded"
                   ELSE r2.pc = "insert" /\ r2.loc.balance = users[b].balance
          [] r.op = "take-loan" /\ r.pc = "insert" ->
                /\ sameRow
                /\ LoansViewOf(loans', b) =
                        Append(LoansViewOf(loans, b),
                               [amount |-> r.loc.amt, status |-> "active", paid_at |-> Null])
          [] r.op = "take-loan" /\ r.pc = "update" ->
                /\ sameLoans
                /\ users'[b] = [users[b] EXCEPT !.balance = Add(r.loc.balance, r.loc.amt)]
          [] r.op = "change-password" /\ r.pc = "select" ->
                /\ sameRow /\ sameLoans
                /\ r2.pc = "update" <=> bcryptCompare(r.body.oldPassword, users[b].password)
          [] r.op = "change-password" /\ r.pc = "update" ->
                /\ sameLoans
                /\ \E salt \in Salts :
                        users'[b] = [users[b] EXCEPT
                                        !.password = bcryptHash(r.body.newPassword, salt)]
          [] OTHER -> sameRow /\ sameLoans

C23_Steps ==
    \A s \in Slots :
        reqs'[s] # reqs[s] =>
            LET m == Mover(s) IN
            IF m.auth = Null THEN users' = users /\ loans' = loans
            ELSE LET b == m.auth[1].token.id IN
                 LocalRespect(b) /\ OwnEffect(reqs[s], reqs'[s], b)

\* a user with no request in flight has the first balance plus the amounts
\* of the user's own loans
C23_OwnLedger ==
    \A a \in UserIds :
        ~Busy(a) => users[a].balance = DefaultBalance + HeldAmounts(a, Len(loans))

\* C23 as claimed: with each user's requests one at a time, a step of B's
\* request changes nothing of A's, a step of A's request acts on A's row and
\* loans as it would alone, and A's loans are the rows A alone would have
\* produced: the first rows of the table.
C23_AsClaimed ==
    /\ [](C23_OwnLedger /\
          \A a \in UserIds : LoanIdsOf(a) = 1..Cardinality(LoanIdsOf(a)))
    /\ [][C23_Steps]_vars

\* C23 for the owner, amount, status and settlement of the loans: with each
\* user's requests one at a time, a step of B's request changes nothing of
\* A's balance, password hash and loans, and a step of A's request acts on
\* them as it would alone; the ids of the rows come from a sequence that all
\* users share.
C23_Isolation == []C23_OwnLedger /\ [][C23_Steps]_vars

\* the second user took the first loan and has a request in flight; the first
\* user has taken a loan, which is row 2, and has changed the password
C23_Witness ==
    /\ Len(loans) = 2
    /\ loans[1].user_id = 2 /\ loans[2].user_id = 1
    /\ users[1].balance = DefaultBalance + loans[2].amount
    /\ users[2].balance = DefaultBalance + loans[1].amount
    /\ bcryptCompare("pw2", users[1].password)
    /\ Busy(2) /\ ~Busy(1)

====
